---- MODULE Spec2Model ----
(***************************************************************************)
(* Poster composition canvas of stage-creatives-FE: the scene (asset list, *)
(* selection, bitmap cache), the pointer manipulation engine of            *)
(* PosterCanvas.tsx, the undo/redo history of PosterGenerationPage.tsx and *)
(* the save path of PosterSaveModal.                                       *)
(*                                                                         *)
(* JavaScript numbers are modelled as exact rationals <<n, d>> (d > 0, in  *)
(* lowest terms), so that the resize arithmetic is computed as the code    *)
(* computes it and not rounded to integers.                                *)
(***************************************************************************)
EXTENDS Integers, Sequences, FiniteSets, TLC

\* ------------------------------------------------------------------ bounds
\* Drops accepted while placed + pending assets are fewer than this.
MaxAssets == 2
\* Scene mutations are accepted while the history stays within this length.
MaxHistory == 3
\* Date.now() takes the values 0..MaxClock.
MaxClock == 1
\* The largest number of colour stops of a gradient
MaxStops == 4

\* ------------------------------------------------------- rational numbers
Abs(n) == IF n < 0 THEN -n ELSE n

RECURSIVE GCD(_, _)
GCD(a, b) == IF b = 0 THEN a ELSE GCD(b, a % b)

Norm(n, d) ==
  LET g == GCD(Abs(n), Abs(d))
      s == IF d < 0 THEN -1 ELSE 1
  IN  <<(s * n) \div g, (s * d) \div g>>

R(n) == <<n, 1>>
RAdd(a, b) == Norm(a[1] * b[2] + b[1] * a[2], a[2] * b[2])
RSub(a, b) == Norm(a[1] * b[2] - b[1] * a[2], a[2] * b[2])
RMul(a, b) == Norm(a[1] * b[1], a[2] * b[2])
RDiv(a, b) == Norm(a[1] * b[2], a[2] * b[1])
RLe(a, b) == a[1] * b[2] <= b[1] * a[2]
RLt(a, b) == a[1] * b[2] < b[1] * a[2]
RMax(a, b) == IF RLe(a, b) THEN b ELSE a
RMin(a, b) == IF RLe(a, b) THEN a ELSE b
RAbs(a) == <<Abs(a[1]), a[2]>>

\* -------------------------------------------------------------- constants
\* handleSize in getResizeHandle
handleSize == 8
\* minSize in handleMouseMove
minSize == 20
\* maxWidth / maxHeight in addAssetToCanvas
maxWidth == 200
maxHeight == 200

\* canvas.offsetWidth / canvas.offsetHeight: the display size of the canvas
displayWidth == 400
displayHeight == 300

\* null / undefined
Null == <<>>

\* The draggable items of the asset picker and the natural size of their image
Items == {"a"}
naturalWidth(item) ==
  IF item = "a" THEN 400 ELSE IF item = "c" THEN 150
  ELSE IF item = "d" THEN 120 ELSE 100
naturalHeight(item) ==
  IF item = "a" THEN 200 ELSE IF item = "c" THEN 600
  ELSE IF item = "d" THEN 80 ELSE 100

\* Canvas-relative points at which the pointer events of a run happen
DropPoints == {<<100, 50>>, <<200, 100>>}
ClickPoints == {<<50, 25>>, <<250, 125>>, <<400, 300>>}
\* and of a run of pointer gestures: the corners and the centre of item "a"
\* dropped at <<100, 50>>, and the far corner of the canvas
GesturePoints ==
  {<<0, 0>>, <<200, 0>>, <<0, 100>>, <<200, 100>>, <<100, 50>>, <<400, 300>>,
   <<0, 300>>}
\* Items and drop points of a run of placements: a wide, a square, a tall
\* and a small image, dropped in the middle and near the edges of the canvas
PlaceItems == {"a", "b", "c", "d"}
PlacePoints == {<<100, 50>>, <<30, 20>>, <<200, 150>>, <<390, 290>>}

\* The values the effect controls of a run send
EffectInputs == {<<"brightness", 50>>}


\* ------------------------------------------------------------------ state
VARIABLES
  assets,             \* PosterCanvas assets == the page's canvasAssets
  loadedImages,       \* keys of the bitmap cache (Map id -> HTMLImageElement)
  selectedAssetId,    \* PosterCanvas selectedAssetId
  isDragging,
  isResizing,
  resizeHandle,       \* "tl" | "tr" | "bl" | "br" | "null"
  dragOffset,         \* <<x, y>>, rationals
  initialAssetState,  \* <<>> (null) or <<asset>>
  contextMenu,        \* Null or the assetId of the open context menu
  history,            \* the page's history: sequence of snapshots
  historyIndex,       \* the page's historyIndex (0-based, -1 when empty)
  pending,            \* images created by addAssetToCanvas, not yet decoded
  now,                \* the latest value Date.now() has returned
  toast,              \* the latest addToast(message, level), <<>> before any
  saveResult,         \* <<>> or <<what the latest handleSave produced>>
  colorStops,         \* config.colorStops of the gradient controls
  selectedColorStop,  \* Null or the id of the selected colour stop
  debounce            \* <<>> or <<the pending timer of ImageEditingTools.updateEffects>>

vars ==
  <<assets, loadedImages, selectedAssetId, isDragging, isResizing, resizeHandle,
    dragOffset, initialAssetState, contextMenu, history, historyIndex, pending,
    now, toast, saveResult, colorStops, selectedColorStop, debounce>>

gradientVars == <<colorStops, selectedColorStop>>

canvasVars ==
  <<selectedAssetId, isDragging, isResizing, resizeHandle, dragOffset,
    initialAssetState, contextMenu>>

\* addToast(message, level)
addToast(message, level) == toast' = <<message, level>>

\* ------------------------------------------------------------ the history
\* A fingerprint that takes the selection flag in
FingerprintWithSelection(list) ==
  [i \in 1..Len(list) |->
     <<list[i].id, list[i].effects, list[i].x, list[i].y, list[i].width,
       list[i].height, list[i].selected>>]

\* The structural fingerprint the history effect stringifies: per asset, in
\* order, id, effects, x, y, width, height (selected is left out).
Fingerprint(list) ==
  [i \in 1..Len(list) |->
     <<list[i].id, list[i].effects, list[i].x, list[i].y, list[i].width,
       list[i].height>>]

\* JSON.parse(JSON.stringify(assets)): every field of a modelled asset is a
\* finite number, a string, a boolean or an array of those, which the round
\* trip reproduces; an undefined effects (modelled <<>>) is dropped by
\* stringify and reads back as undefined.
DeepCopy(list) == [i \in 1..Len(list) |-> list[i]]

\* addToHistory: slice(0, historyIndex + 1), push a deep copy, point at it.
addToHistory(list, h, idx) ==
  LET newHistory == Append(SubSeq(h, 1, idx + 1), DeepCopy(list))
  IN  [history |-> newHistory, historyIndex |-> Len(newHistory) - 1]

\* The effect that runs after every change of canvasAssets.
TrackHistory(list, h, idx) ==
  IF Len(list) > 0 \/ Len(h) = 0
  THEN LET hasLast == idx >= 0 /\ idx < Len(h)
           same == hasLast /\ Fingerprint(list) = Fingerprint(h[idx + 1])
       IN  IF ~same THEN addToHistory(list, h, idx)
           ELSE [history |-> h, historyIndex |-> idx]
  ELSE [history |-> h, historyIndex |-> idx]

\* setCanvasAssets(list) followed by the history effect, while the history
\* stays within the model's bound.
SetCanvasAssets(list) ==
  LET t == TrackHistory(list, history, historyIndex)
  IN  /\ Len(t.history) <= MaxHistory
      /\ assets' = list
      /\ history' = t.history
      /\ historyIndex' = t.historyIndex

\* ------------------------------------------------------------ hit testing
Inside(asset, p) ==
  /\ RLe(asset.x, R(p[1])) /\ RLe(R(p[1]), RAdd(asset.x, asset.width))
  /\ RLe(asset.y, R(p[2])) /\ RLe(R(p[2]), RAdd(asset.y, asset.height))

\* Index of the topmost asset under p (the reverse loop), 0 when none.
HitIndex(list, p) ==
  LET hits == {i \in 1..Len(list) : Inside(list[i], p)}
  IN  IF hits = {} THEN 0 ELSE CHOOSE i \in hits : \A j \in hits : j <= i

ClickedId(list, p) ==
  IF HitIndex(list, p) = 0 THEN Null ELSE list[HitIndex(list, p)].id

\* assets.find(asset => asset.selected): index of the first selected asset
SelectedIndex(list) ==
  LET sel == {i \in 1..Len(list) : list[i].selected}
  IN  IF sel = {} THEN 0 ELSE CHOOSE i \in sel : \A j \in sel : i <= j

InHandle(cx, cy, p) ==
  LET hx == RSub(cx, R(handleSize \div 2))
      hy == RSub(cy, R(handleSize \div 2))
  IN  /\ RLe(hx, R(p[1])) /\ RLe(R(p[1]), RAdd(hx, R(handleSize)))
      /\ RLe(hy, R(p[2])) /\ RLe(R(p[2]), RAdd(hy, R(handleSize)))

getResizeHandle(asset, p) ==
  LET right == RAdd(asset.x, asset.width)
      bottom == RAdd(asset.y, asset.height)
  IN  IF InHandle(asset.x, asset.y, p) THEN "tl"
      ELSE IF InHandle(right, asset.y, p) THEN "tr"
      ELSE IF InHandle(asset.x, bottom, p) THEN "bl"
      ELSE IF InHandle(right, bottom, p) THEN "br"
      ELSE "null"

\* prev.map(asset => ({...asset, selected: asset.id === clickedAsset?.id}))
SelectOnly(list, id) ==
  [i \in 1..Len(list) |-> [list[i] EXCEPT !.selected = (list[i].id = id)]]

\* prev.filter(asset => asset.id !== id)
RECURSIVE RemoveId(_, _)
RemoveId(list, id) ==
  IF list = <<>> THEN <<>>
  ELSE IF Head(list).id = id THEN RemoveId(Tail(list), id)
  ELSE <<Head(list)>> \o RemoveId(Tail(list), id)

RemoveAt(seq, i) == SubSeq(seq, 1, i - 1) \o SubSeq(seq, i + 1, Len(seq))

\* --------------------------------------------------------- drop and decode
\* The geometry img.onload gives the new asset.
PlacedAsset(item, px, py, time) ==
  LET nw == R(naturalWidth(item))
      nh == R(naturalHeight(item))
      aspectRatio == RDiv(nw, nh)
      wide == RLt(R(1), aspectRatio)
      width == IF wide THEN RMin(R(maxWidth), nw)
               ELSE RMul(RMin(R(maxHeight), nh), aspectRatio)
      height == IF wide THEN RDiv(RMin(R(maxWidth), nw), aspectRatio)
                ELSE RMin(R(maxHeight), nh)
  IN  [id |-> <<item, time>>,
       src |-> item,
       x |-> RMax(R(0), RSub(R(px), RDiv(width, R(2)))),
       y |-> RMax(R(0), RSub(R(py), RDiv(height, R(2)))),
       width |-> width,
       height |-> height,
       selected |-> FALSE,
       effects |-> <<>>]

\* useDrop's drop: addAssetToCanvas starts a decode and the toast is shown.
Drop(item, p) ==
  /\ Len(assets) + Len(pending) < MaxAssets
  /\ pending' = Append(pending, [item |-> item, x |-> p[1], y |-> p[2]])
  /\ addToast("added to canvas", "success") /\ UNCHANGED <<saveResult, gradientVars, debounce>>
  /\ UNCHANGED <<assets, loadedImages, history, historyIndex, now>>
  /\ UNCHANGED canvasVars

\* A decode that puts the new asset below the others
ImgOnLoadFirst(i, t) ==
  LET d == pending[i]
      newAsset == PlacedAsset(d.item, d.x, d.y, t)
  IN  /\ SetCanvasAssets(<<newAsset>> \o assets)
      /\ loadedImages' = loadedImages \cup {newAsset.id}
      /\ pending' = RemoveAt(pending, i)
      /\ now' = t
      /\ UNCHANGED <<toast, saveResult, gradientVars, debounce>>
      /\ UNCHANGED canvasVars

\* img.onload of the i-th pending image; Date.now() returns t, which is not
\* before its latest value.
ImgOnLoad(i, t) ==
  LET d == pending[i]
      newAsset == PlacedAsset(d.item, d.x, d.y, t)
  IN  /\ SetCanvasAssets(Append(assets, newAsset))
      /\ loadedImages' = loadedImages \cup {newAsset.id}
      /\ pending' = RemoveAt(pending, i)
      /\ now' = t
      /\ UNCHANGED <<toast, saveResult, gradientVars, debounce>>
      /\ UNCHANGED canvasVars

\* A failure handler that places the image all the same
ImgOnErrorPlaces(i) ==
  /\ ImgOnLoad(i, now)

\* img.onerror of the i-th pending image
ImgOnError(i) ==
  /\ pending' = RemoveAt(pending, i)
  /\ addToast("Failed to load image", "error") /\ UNCHANGED <<saveResult, gradientVars, debounce>>
  /\ UNCHANGED <<assets, loadedImages, history, historyIndex, now>>
  /\ UNCHANGED canvasVars

\* ------------------------------------------------- selection and deletion
\* handleCanvasClick
HandleCanvasClick(p) ==
  LET clicked == ClickedId(assets, p)
  IN  /\ SetCanvasAssets(SelectOnly(assets, clicked))
      /\ selectedAssetId' = clicked
      /\ contextMenu' = Null
      /\ UNCHANGED <<toast, saveResult, gradientVars, debounce>>
      /\ UNCHANGED <<loadedImages, pending, now, isDragging, isResizing,
                     resizeHandle, dragOffset, initialAssetState>>

\* handleContextMenu: a right-click that hits no asset changes nothing.
HandleContextMenu(p) ==
  LET clicked == ClickedId(assets, p)
  IN  /\ IF clicked # Null
         THEN /\ SetCanvasAssets(SelectOnly(assets, clicked))
              /\ selectedAssetId' = clicked
              /\ contextMenu' = clicked
         ELSE UNCHANGED <<assets, history, historyIndex, selectedAssetId,
                          contextMenu>>
      /\ UNCHANGED <<toast, saveResult, gradientVars, debounce>>
      /\ UNCHANGED <<loadedImages, pending, now, isDragging, isResizing,
                     resizeHandle, dragOffset, initialAssetState>>

\* handleClickOutside: a click elsewhere in the document closes the menu.
HandleClickOutside ==
  /\ contextMenu # Null
  /\ contextMenu' = Null
  /\ UNCHANGED <<toast, saveResult, gradientVars, debounce>>
  /\ UNCHANGED <<assets, loadedImages, history, historyIndex, pending, now,
                 selectedAssetId, isDragging, isResizing, resizeHandle,
                 dragOffset, initialAssetState>>

\* handleDeleteAsset(contextMenu.assetId): the menu's Delete Image button
HandleDeleteAsset ==
  /\ contextMenu # Null
  /\ SetCanvasAssets(RemoveId(assets, contextMenu))
  /\ loadedImages' = loadedImages \ {contextMenu}
  /\ selectedAssetId' = Null
  /\ contextMenu' = Null
  /\ addToast("Image removed from canvas", "success") /\ UNCHANGED <<saveResult, gradientVars, debounce>>
  /\ UNCHANGED <<pending, now, isDragging, isResizing, resizeHandle,
                 dragOffset, initialAssetState>>

\* handleKeyDown with Delete or Backspace
HandleKeyDown ==
  LET i == SelectedIndex(assets)
  IN  IF i # 0
      THEN /\ SetCanvasAssets(RemoveId(assets, assets[i].id))
           /\ loadedImages' = loadedImages \ {assets[i].id}
           /\ selectedAssetId' = Null
           /\ addToast("Image removed from canvas", "success") /\ UNCHANGED <<saveResult, gradientVars, debounce>>
           /\ UNCHANGED <<pending, now, isDragging, isResizing, resizeHandle,
                          dragOffset, initialAssetState, contextMenu>>
      ELSE /\ UNCHANGED <<toast, saveResult, gradientVars, debounce>>
           /\ UNCHANGED <<assets, loadedImages, history, historyIndex,
                          pending, now>>
           /\ UNCHANGED canvasVars

\* ------------------------------------------------------- drag and resize
\* handleMouseDown
HandleMouseDown(p) ==
  LET i == SelectedIndex(assets)
      selectedAsset == assets[i]
      handle == getResizeHandle(selectedAsset, p)
  IN  /\ IF i = 0
         THEN UNCHANGED <<isDragging, isResizing, resizeHandle, dragOffset,
                          initialAssetState>>
         ELSE IF handle # "null"
         THEN /\ isResizing' = TRUE
              /\ resizeHandle' = handle
              /\ initialAssetState' = <<selectedAsset>>
              /\ dragOffset' = <<R(p[1]), R(p[2])>>
              /\ UNCHANGED isDragging
         ELSE IF Inside(selectedAsset, p)
         THEN /\ isDragging' = TRUE
              /\ dragOffset' = <<RSub(R(p[1]), selectedAsset.x),
                                 RSub(R(p[2]), selectedAsset.y)>>
              /\ UNCHANGED <<isResizing, resizeHandle, initialAssetState>>
         ELSE UNCHANGED <<isDragging, isResizing, resizeHandle, dragOffset,
                          initialAssetState>>
      /\ UNCHANGED <<toast, saveResult, gradientVars, debounce>>
      /\ UNCHANGED <<assets, loadedImages, history, historyIndex, pending, now,
                     selectedAssetId, contextMenu>>

\* Math.max(0, Math.min(limit - size, value))
Clamp(value, size, limit) == RMax(R(0), RMin(RSub(R(limit), size), value))

\* The drag branch of handleMouseMove, for one asset
Dragged(asset, p, offset) ==
  [asset EXCEPT
     !.x = Clamp(RSub(R(p[1]), offset[1]), asset.width, displayWidth),
     !.y = Clamp(RSub(R(p[2]), offset[2]), asset.height, displayHeight)]

\* scaleFactor of the resize switch, before the minimum is applied
RawScale(handle, dx, dy, init) ==
  LET total == RAdd(init.width, init.height)
      move == CASE handle = "tl" -> RSub(R(0), RAdd(RAbs(dx), RAbs(dy)))
                [] handle = "tr" -> RSub(dx, dy)
                [] handle = "bl" -> RAdd(RSub(R(0), dx), dy)
                [] handle = "br" -> RAdd(dx, dy)
  IN  RAdd(R(1), RDiv(move, total))

scaleFactor(handle, dx, dy, init) ==
  RMax(RDiv(R(minSize), RMax(init.width, init.height)),
       RawScale(handle, dx, dy, init))

\* A resize that adds the change of the width to the height
ResizedByWidth(asset, handle, dx, dy, init) ==
  LET s == scaleFactor(handle, dx, dy, init)
      newWidth == RMul(init.width, s)
      newHeight == RAdd(init.height, RSub(newWidth, init.width))
  IN  [asset EXCEPT
         !.width = newWidth,
         !.height = newHeight,
         !.x = Clamp(init.x, newWidth, displayWidth),
         !.y = Clamp(init.y, newHeight, displayHeight)]

\* The resize branch of handleMouseMove, for one asset
Resized(asset, handle, dx, dy, init) ==
  LET s == scaleFactor(handle, dx, dy, init)
      newWidth == RMul(init.width, s)
      newHeight == RMul(init.height, s)
      left == RAdd(init.x, RSub(init.width, newWidth))
      top == RAdd(init.y, RSub(init.height, newHeight))
      nx == IF handle \in {"tl", "bl"} THEN left ELSE init.x
      ny == IF handle \in {"tl", "tr"} THEN top ELSE init.y
  IN  [asset EXCEPT
         !.width = newWidth,
         !.height = newHeight,
         !.x = Clamp(nx, newWidth, displayWidth),
         !.y = Clamp(ny, newHeight, displayHeight)]

\* handleMouseMove
HandleMouseMove(p) ==
  LET dx == RSub(R(p[1]), dragOffset[1])
      dy == RSub(R(p[2]), dragOffset[2])
      dragged == [i \in 1..Len(assets) |->
                    IF assets[i].id = selectedAssetId
                    THEN Dragged(assets[i], p, dragOffset) ELSE assets[i]]
      resized == [i \in 1..Len(assets) |->
                    IF assets[i].id = selectedAssetId
                    THEN Resized(assets[i], resizeHandle, dx, dy,
                                 initialAssetState[1])
                    ELSE assets[i]]
  IN  /\ IF selectedAssetId = Null \/ (~isDragging /\ ~isResizing)
         THEN UNCHANGED <<assets, history, historyIndex>>
         ELSE IF isDragging
         THEN SetCanvasAssets(dragged)
         ELSE IF isResizing /\ resizeHandle # "null" /\ initialAssetState # <<>>
         THEN SetCanvasAssets(resized)
         ELSE UNCHANGED <<assets, history, historyIndex>>
      /\ UNCHANGED <<toast, saveResult, gradientVars, debounce>>
      /\ UNCHANGED <<loadedImages, pending, now>>
      /\ UNCHANGED canvasVars

\* handleMouseUp, also bound to mouse leave
HandleMouseUp ==
  /\ isDragging' = FALSE
  /\ isResizing' = FALSE
  /\ resizeHandle' = "null"
  /\ initialAssetState' = <<>>
  /\ UNCHANGED <<toast, saveResult, gradientVars, debounce>>
  /\ UNCHANGED <<assets, loadedImages, history, historyIndex, pending, now,
                 selectedAssetId, dragOffset, contextMenu>>


\* The pointer's latest event was at p: a move to p has been applied, or
\* would change nothing.
AtPointer(p) ==
  \A i \in 1..Len(assets) :
    assets[i].id = selectedAssetId =>
      IF isDragging
      THEN Dragged(assets[i], p, dragOffset) = assets[i]
      ELSE (isResizing /\ resizeHandle # "null" /\ initialAssetState # <<>>) =>
             Resized(assets[i], resizeHandle,
                     RSub(R(p[1]), dragOffset[1]), RSub(R(p[2]), dragOffset[2]),
                     initialAssetState[1]) = assets[i]

\* The button is released at p over the overlay while a gesture is in
\* progress: the mouseup event runs handleMouseUp and the click event that
\* follows it at the same point runs handleCanvasClick.
PointerRelease(p) ==
  LET clicked == ClickedId(assets, p)
  IN  /\ isDragging \/ isResizing
      /\ AtPointer(p)
      /\ isDragging' = FALSE
      /\ isResizing' = FALSE
      /\ resizeHandle' = "null"
      /\ initialAssetState' = <<>>
      /\ SetCanvasAssets(SelectOnly(assets, clicked))
      /\ selectedAssetId' = clicked
      /\ contextMenu' = Null
      /\ UNCHANGED <<toast, saveResult, gradientVars, debounce>>
      /\ UNCHANGED <<loadedImages, pending, now, dragOffset>>

\* -------------------------------------------------------- effect updates
\* { ...currentEffects, [effectName]: value }: an existing key keeps its
\* place, a new key goes last.
SetKey(effects, name, value) ==
  IF \E k \in 1..Len(effects) : effects[k][1] = name
  THEN [k \in 1..Len(effects) |->
          IF effects[k][1] = name THEN <<name, value>> ELSE effects[k]]
  ELSE Append(effects, <<name, value>>)

\* The page's handleAssetUpdate
handleAssetUpdate(list, updatedAsset) ==
  [i \in 1..Len(list) |->
     IF list[i].id = updatedAsset.id THEN updatedAsset ELSE list[i]]

\* MaterialDesignControls.applyEffect; selectedAsset is the page's
\* canvasAssets.find(asset => asset.selected).
ApplyEffect(name, value) ==
  LET i == SelectedIndex(assets)
      selectedAsset == assets[i]
      updatedAsset ==
        [selectedAsset EXCEPT !.effects = SetKey(selectedAsset.effects, name, value)]
  IN  IF i = 0
      THEN /\ addToast("Please select an image first", "error") /\ UNCHANGED <<saveResult, gradientVars, debounce>>
           /\ UNCHANGED <<assets, loadedImages, history, historyIndex,
                          pending, now>>
           /\ UNCHANGED canvasVars
      ELSE /\ SetCanvasAssets(handleAssetUpdate(assets, updatedAsset))
           /\ UNCHANGED <<toast, saveResult, gradientVars, debounce>>
           /\ UNCHANGED <<loadedImages, pending, now>>
           /\ UNCHANGED canvasVars

\* The Apply button of AdvancedGradientControls: the page's
\* handleAdvancedGradientApply(config), then the button's own toast.  config
\* is the controls' state: the type chosen, the colour stops, and the area
\* the page hands down, which PosterCanvas never reports and so stays null;
\* the controls set no previewDimensions.
HandleAdvancedGradientApply(type) ==
  LET i == SelectedIndex(assets)
      selectedAsset == assets[i]
      config == [type |-> type, colorStops |-> colorStops, area |-> <<>>,
                 previewDimensions |-> <<>>]
      updatedAsset ==
        [selectedAsset EXCEPT
           !.effects = SetKey(selectedAsset.effects, "advancedGradient", config)]
  IN  /\ IF i = 0
         THEN UNCHANGED <<assets, history, historyIndex>>
         ELSE SetCanvasAssets(handleAssetUpdate(assets, updatedAsset))
      /\ addToast("Gradient applied", "success")
      /\ UNCHANGED <<saveResult, gradientVars, debounce>>
      /\ UNCHANGED <<loadedImages, pending, now>>
      /\ UNCHANGED canvasVars

\* ImageEditingTools: defaultEffects, in the order of its keys; of its
\* fields, those the canvas reads when it draws (the border, shadow, glow
\* and gradient fields follow them).
defaultEffects ==
  << <<"opacity", 100>>, <<"rotation", 0>>, <<"flipHorizontal", FALSE>>,
     <<"flipVertical", FALSE>>, <<"scaleX", 1>>, <<"scaleY", 1>>,
     <<"brightness", 0>>, <<"contrast", 0>>, <<"saturation", 0>>,
     <<"hue", 0>>, <<"blur", 0>>, <<"sepia", 0>>, <<"grayscale", 0>>,
     <<"invert", FALSE>> >>

\* ImageEditingTools: its effects state.  The load effect sets it from the
\* selected asset whenever that prop changes; updateEffects sets it to the
\* effects it was handed.
toolEffects ==
  LET i == SelectedIndex(assets)
  IN  IF i = 0 THEN defaultEffects
      ELSE IF debounce # <<>> /\ debounce[1].selectedAsset = assets[i]
      THEN debounce[1].newEffects
      ELSE IF assets[i].effects # <<>> THEN assets[i].effects
      ELSE defaultEffects

\* ImageEditingTools: a control's onChange, updateEffects({...effects,
\* [name]: value}).  The controls are rendered only while an asset is
\* selected.  The timer it starts replaces the pending one and closes over
\* the selectedAsset prop of this render.
UpdateEffects(name, value) ==
  LET i == SelectedIndex(assets)
  IN  /\ i # 0
      /\ debounce' = <<[selectedAsset |-> assets[i],
                        newEffects |-> SetKey(toolEffects, name, value)]>>
      /\ UNCHANGED <<assets, loadedImages, history, historyIndex, pending,
                     now, toast, saveResult, gradientVars>>
      /\ UNCHANGED canvasVars

\* ImageEditingTools: the callback of the 100 ms timer of updateEffects,
\* onAssetUpdate being the page's handleAssetUpdate
DebounceFires ==
  /\ debounce # <<>>
  /\ LET selectedAsset == debounce[1].selectedAsset
         updatedAsset ==
           [selectedAsset EXCEPT !.effects = debounce[1].newEffects]
     IN  SetCanvasAssets(handleAssetUpdate(assets, updatedAsset))
  /\ debounce' = <<>>
  /\ UNCHANGED <<loadedImages, pending, now, toast, saveResult, gradientVars>>
  /\ UNCHANGED canvasVars

\* ------------------------------------------------------------- undo, redo
\* An undo whose guard lets index 0 through
undoAtZero(h, idx) ==
  IF idx >= 0
  THEN [ok |-> TRUE, historyIndex |-> idx - 1,
        assets |-> DeepCopy(h[IF idx > 0 THEN idx ELSE 1])]
  ELSE [ok |-> FALSE, historyIndex |-> idx, assets |-> <<>>]

\* handleUndo: the index and the scene it sets, ok when it acts
undo(h, idx) ==
  IF idx > 0
  THEN [ok |-> TRUE, historyIndex |-> idx - 1, assets |-> DeepCopy(h[idx])]
  ELSE [ok |-> FALSE, historyIndex |-> idx, assets |-> <<>>]

\* handleRedo
redo(h, idx) ==
  IF idx < Len(h) - 1
  THEN [ok |-> TRUE, historyIndex |-> idx + 1, assets |-> DeepCopy(h[idx + 2])]
  ELSE [ok |-> FALSE, historyIndex |-> idx, assets |-> <<>>]

\* The page after handleUndo or handleRedo returned r: both state updates
\* are applied in one render and the history effect runs on the new scene.
Restore(r, message) ==
  IF r.ok
  THEN LET t == TrackHistory(r.assets, history, r.historyIndex)
       IN  /\ assets' = r.assets
           /\ history' = t.history
           /\ historyIndex' = t.historyIndex
           /\ addToast(message, "info")
  ELSE UNCHANGED <<assets, history, historyIndex, toast>>

HandleUndo ==
  /\ Restore(undo(history, historyIndex), "Undo successful")
  /\ UNCHANGED <<loadedImages, pending, now, saveResult, gradientVars, debounce>>
  /\ UNCHANGED canvasVars

HandleRedo ==
  /\ Restore(redo(history, historyIndex), "Redo successful")
  /\ UNCHANGED <<loadedImages, pending, now, saveResult, gradientVars, debounce>>
  /\ UNCHANGED canvasVars

\* ------------------------------------------------------------------- save
\* Math.min / Math.max folded over a non-empty set of numbers
MinOf(S) == CHOOSE a \in S : \A b \in S : RLe(a, b)
MaxOf(S) == CHOOSE a \in S : \A b \in S : RLe(b, a)

\* The integer a canvas takes as its width or height from a number >= 0
RFloor(a) == a[1] \div a[2]

\* The orders in which the images of n assets can load: the sequences of
\* distinct indices; an index left out is an asset whose fetch, read or
\* decode failed.
Orders(n) ==
  UNION {{o \in [1..k -> 1..n] : \A i, j \in 1..k : o[i] = o[j] => i = j} :
           k \in 0..n}

\* A clean canvas that keeps a margin around the content
createCleanCanvasPadded(list, scale, loaded) ==
  LET minX == RMax(R(0), RSub(MinOf({list[i].x : i \in 1..Len(list)}), R(10)))
      minY == RMax(R(0), RSub(MinOf({list[i].y : i \in 1..Len(list)}), R(10)))
      maxX == RAdd(MaxOf({RAdd(list[i].x, list[i].width) : i \in 1..Len(list)}), R(10))
      maxY == RAdd(MaxOf({RAdd(list[i].y, list[i].height) : i \in 1..Len(list)}), R(10))
  IN  [width |-> RSub(maxX, minX),
       height |-> RSub(maxY, minY),
       rasterWidth |-> RFloor(RMul(RSub(maxX, minX), R(scale))),
       rasterHeight |-> RFloor(RMul(RSub(maxY, minY), R(scale))),
       draws |-> [k \in 1..Len(loaded) |->
                    [id |-> list[loaded[k]].id,
                     x |-> RSub(list[loaded[k]].x, minX),
                     y |-> RSub(list[loaded[k]].y, minY),
                     width |-> list[loaded[k]].width,
                     height |-> list[loaded[k]].height]]]

\* createCleanCanvas past its rejections, for a non-empty list: the bounding
\* box, the canvas made for it (style size and pixel size) and the drawImage
\* calls, one per loaded image in the order the images load.
createCleanCanvas(list, scale, loaded) ==
  LET padding == 0
      minX == RMax(R(0), RSub(MinOf({list[i].x : i \in 1..Len(list)}), R(padding)))
      minY == RMax(R(0), RSub(MinOf({list[i].y : i \in 1..Len(list)}), R(padding)))
      maxX == RAdd(MaxOf({RAdd(list[i].x, list[i].width) : i \in 1..Len(list)}),
                   R(padding))
      maxY == RAdd(MaxOf({RAdd(list[i].y, list[i].height) : i \in 1..Len(list)}),
                   R(padding))
      contentWidth == RSub(maxX, minX)
      contentHeight == RSub(maxY, minY)
  IN  [width |-> contentWidth,
       height |-> contentHeight,
       rasterWidth |-> RFloor(RMul(contentWidth, R(scale))),
       rasterHeight |-> RFloor(RMul(contentHeight, R(scale))),
       draws |-> [k \in 1..Len(loaded) |->
                    [id |-> list[loaded[k]].id,
                     x |-> RSub(list[loaded[k]].x, minX),
                     y |-> RSub(list[loaded[k]].y, minY),
                     width |-> list[loaded[k]].width,
                     height |-> list[loaded[k]].height]]]

\* A save that does not look at the number of assets
HandleSaveUnchecked(formValid, canvasAvailable, delivered, scale, loaded) ==
  LET surface == formValid /\ canvasAvailable
      upload == surface /\ delivered
  IN  /\ saveResult' =
           <<[request |-> [formValid |-> formValid,
                           canvasAvailable |-> canvasAvailable,
                           delivered |-> delivered, scale |-> scale,
                           loaded |-> loaded],
              assets |-> Len(assets), surface |-> surface, upload |-> upload,
              canvas |-> <<>>]>>
      /\ UNCHANGED <<toast, gradientVars, debounce>>
      /\ UNCHANGED <<assets, loadedImages, history, historyIndex, pending, now>>
      /\ UNCHANGED canvasVars

\* A save that gives up when one image of the scene does not load
HandleSaveAllOrNothing(formValid, canvasAvailable, delivered, scale, loaded) ==
  LET surface == formValid /\ Len(assets) > 0 /\ canvasAvailable
                   /\ Len(loaded) = Len(assets)
      upload == surface /\ delivered
  IN  /\ saveResult' =
           <<[request |-> [formValid |-> formValid,
                           canvasAvailable |-> canvasAvailable,
                           delivered |-> delivered, scale |-> scale,
                           loaded |-> loaded],
              assets |-> Len(assets), surface |-> surface, upload |-> upload,
              canvas |-> IF surface
                         THEN <<createCleanCanvas(assets, scale, loaded)>>
                         ELSE <<>>]>>
      /\ UNCHANGED <<toast, gradientVars, debounce>>
      /\ UNCHANGED <<assets, loadedImages, history, historyIndex, pending, now>>
      /\ UNCHANGED canvasVars

\* PosterSaveModal.handleSave. formValid: validateForm(); canvasAvailable:
\* canvasRef.current is set and the new canvas gives a 2d context; delivered:
\* toBlob gives a blob and the content has an id; scale:
\* window.devicePixelRatio || 1; loaded: the assets whose image is fetched,
\* read and decoded, in the order their images load.  saveResult records
\* these, the number of assets at the request, whether createCleanCanvas
\* made its surface, that surface, and whether the upload was requested.
HandleSave(formValid, canvasAvailable, delivered, scale, loaded) ==
  LET hasCanvasAssets == Len(assets) > 0
      \* createCleanCanvas gets past its two rejections and makes the surface
      surface == formValid /\ hasCanvasAssets /\ canvasAvailable
                   /\ Len(assets) # 0
      upload == surface /\ delivered
  IN  /\ saveResult' =
           <<[request |-> [formValid |-> formValid,
                           canvasAvailable |-> canvasAvailable,
                           delivered |-> delivered, scale |-> scale,
                           loaded |-> loaded],
              assets |-> Len(assets), surface |-> surface, upload |-> upload,
              canvas |-> IF surface
                         THEN <<createCleanCanvas(assets, scale, loaded)>>
                         ELSE <<>>]>>
      /\ UNCHANGED <<toast, gradientVars, debounce>>
      /\ UNCHANGED <<assets, loadedImages, history, historyIndex, pending, now>>
      /\ UNCHANGED canvasVars

\* ------------------------------------------------------- gradient stops
\* AdvancedGradientControls; AdvancedGradientEditor (ContentGrid.tsx) has
\* the same handlers, statement for statement.
defaultColorStops ==
  <<[id |-> <<"1">>, color |-> "#000000", position |-> 0],
    [id |-> <<"2">>, color |-> "rgba(0,0,0,0)", position |-> 100]>>

\* textOptimizedPresets, by name: the colour at position 0 and at 100
Presets == {"Dark", "Light"}
presetColors(name) ==
  IF name = "Dark" THEN <<"rgba(0,0,0,0.8)", "rgba(0,0,0,0)">>
  ELSE <<"rgba(255,255,255,0.8)", "rgba(255,255,255,0)">>

\* ((e.clientX - rect.left) / rect.width) * 100 for the pointer positions
\* of the model: left of the bar, on it, right of it
BarPositions == {-20, 50, 130}
StopColors == {"#ff0000"}

\* Math.max(0, Math.min(100, position))
ClampPosition(position) ==
  IF position < 0 THEN 0 ELSE IF position > 100 THEN 100 ELSE position

\* prev.colorStops.filter(stop => stop.id !== stopId)
RECURSIVE RemoveStop(_, _)
RemoveStop(stops, stopId) ==
  IF stops = <<>> THEN <<>>
  ELSE IF Head(stops).id = stopId THEN RemoveStop(Tail(stops), stopId)
  ELSE <<Head(stops)>> \o RemoveStop(Tail(stops), stopId)

StopIds == {colorStops[k].id : k \in 1..Len(colorStops)}

gradientFrame ==
  /\ UNCHANGED <<assets, loadedImages, history, historyIndex, pending,
                 saveResult, debounce>>
  /\ UNCHANGED canvasVars

\* handleColorStopDrag
HandleColorStopDrag(stopId, raw) ==
  /\ colorStops' =
       [k \in 1..Len(colorStops) |->
          IF colorStops[k].id = stopId
          THEN [colorStops[k] EXCEPT !.position = ClampPosition(raw)]
          ELSE colorStops[k]]
  /\ UNCHANGED <<selectedColorStop, now, toast>>
  /\ gradientFrame

\* addColorStop: the id is Date.now().toString(), which returns t
AddColorStop(raw, t) ==
  LET newStop == [id |-> <<"t", t>>, color |-> "#808080",
                  position |-> ClampPosition(raw)]
  IN  /\ Len(colorStops) < MaxStops
      /\ colorStops' = Append(colorStops, newStop)
      /\ selectedColorStop' = newStop.id
      /\ now' = t
      /\ UNCHANGED toast
      /\ gradientFrame

\* A delete that does not look at the number of stops
DeleteColorStopUnguarded(stopId) ==
  /\ colorStops' = RemoveStop(colorStops, stopId)
  /\ selectedColorStop' =
       IF selectedColorStop = stopId THEN Null ELSE selectedColorStop
  /\ UNCHANGED <<now, toast>>
  /\ gradientFrame

\* deleteColorStop
DeleteColorStop(stopId) ==
  /\ IF Len(colorStops) <= 2
     THEN /\ addToast("Gradient must have at least 2 color stops", "error")
          /\ UNCHANGED <<colorStops, selectedColorStop>>
     ELSE /\ colorStops' = RemoveStop(colorStops, stopId)
          /\ selectedColorStop' =
               IF selectedColorStop = stopId THEN Null ELSE selectedColorStop
          /\ UNCHANGED toast
  /\ UNCHANGED now
  /\ gradientFrame

\* applyPreset: every stop gets the id Date.now().toString() + Math.random(),
\* where two calls of Math.random() give different numbers
ApplyPreset(name, t) ==
  /\ colorStops' =
       <<[id |-> <<"p", t, 1>>, color |-> presetColors(name)[1], position |-> 0],
         [id |-> <<"p", t, 2>>, color |-> presetColors(name)[2], position |-> 100]>>
  /\ now' = t
  /\ UNCHANGED <<selectedColorStop, toast>>
  /\ gradientFrame

\* The stop's onClick: setSelectedColorStop(stop.id)
SelectColorStop(stopId) ==
  /\ selectedColorStop' = stopId
  /\ UNCHANGED <<colorStops, now, toast>>
  /\ gradientFrame

\* updateColorStopColor
UpdateColorStopColor(color) ==
  /\ IF selectedColorStop = Null
     THEN UNCHANGED colorStops
     ELSE colorStops' =
            [k \in 1..Len(colorStops) |->
               IF colorStops[k].id = selectedColorStop
               THEN [colorStops[k] EXCEPT !.color = color]
               ELSE colorStops[k]]
  /\ UNCHANGED <<selectedColorStop, now, toast>>
  /\ gradientFrame

\* ----------------------------------------------------------------- drawing
\* effects[name]: whether the key is there, and its value when it is
HasKey(effects, name) == \E k \in 1..Len(effects) : effects[k][1] = name
GetKey(effects, name) ==
  effects[CHOOSE k \in 1..Len(effects) : effects[k][1] = name][2]

\* effects.name !== 0, effects.name > 0 and the truthiness of effects.name,
\* where a key that was never set reads undefined: undefined !== 0 holds,
\* undefined > 0 does not, and undefined is falsy.
NotZero(effects, name) == ~HasKey(effects, name) \/ GetKey(effects, name) # 0
Positive(effects, name) == HasKey(effects, name) /\ GetKey(effects, name) > 0
Truthy(effects, name) == HasKey(effects, name) /\ GetKey(effects, name) = TRUE

\* The number a template literal prints: <<n>>, or <<>> for NaN / undefined
Plus100(effects, name) ==
  IF HasKey(effects, name) THEN <<100 + GetKey(effects, name)>> ELSE <<>>
Plain(effects, name) ==
  IF HasKey(effects, name) THEN <<GetKey(effects, name)>> ELSE <<>>

\* The filters array of drawCanvas, joined into ctx.filter: the components
\* in the order they are pushed, each <<function name, number printed>>
filters(effects) ==
  (IF NotZero(effects, "brightness")
   THEN <<<<"brightness", Plus100(effects, "brightness")>>>> ELSE <<>>)
  \o (IF NotZero(effects, "contrast")
      THEN <<<<"contrast", Plus100(effects, "contrast")>>>> ELSE <<>>)
  \o (IF NotZero(effects, "saturation")
      THEN <<<<"saturate", Plus100(effects, "saturation")>>>> ELSE <<>>)
  \o (IF NotZero(effects, "hue")
      THEN <<<<"hue-rotate", Plain(effects, "hue")>>>> ELSE <<>>)
  \o (IF Positive(effects, "blur")
      THEN <<<<"blur", Plain(effects, "blur")>>>> ELSE <<>>)
  \o (IF Positive(effects, "sepia")
      THEN <<<<"sepia", Plain(effects, "sepia")>>>> ELSE <<>>)
  \o (IF Positive(effects, "grayscale")
      THEN <<<<"grayscale", Plain(effects, "grayscale")>>>> ELSE <<>>)
  \o (IF Truthy(effects, "invert") THEN <<<<"invert", <<100>>>>>> ELSE <<>>)

\* advGrad.previewDimensions?.width || 400 and ?.height || 240
previewWidth(advGrad) ==
  IF advGrad.previewDimensions = <<>> \/ advGrad.previewDimensions[1].width = 0
  THEN 400 ELSE advGrad.previewDimensions[1].width
previewHeight(advGrad) ==
  IF advGrad.previewDimensions = <<>> \/ advGrad.previewDimensions[1].height = 0
  THEN 240 ELSE advGrad.previewDimensions[1].height

\* A remap that leaves the asset-local frame at the asset's corner
remapFromCorner(coord, assetSize, previewSize) ==
  RMul(R(coord), RDiv(assetSize, R(previewSize)))

\* (coord * scale) - assetSize / 2 with scale = assetSize / previewSize
remap(coord, assetSize, previewSize) ==
  RSub(RMul(R(coord), RDiv(assetSize, R(previewSize))), RDiv(assetSize, R(2)))

\* The gradient drawCanvas creates for effects.advancedGradient, in the frame
\* centred on the asset: <<function, arguments>>.  The radius of a radial
\* gradient is a square root; its square is kept.
createGradient(asset, advGrad) ==
  LET w == asset.width
      h == asset.height
      pw == previewWidth(advGrad)
      ph == previewHeight(advGrad)
      full == <<"createLinearGradient",
                <<RSub(R(0), RDiv(w, R(2))), RSub(R(0), RDiv(h, R(2))),
                  RDiv(w, R(2)), RDiv(h, R(2))>>>>
  IN  IF advGrad.type = "linear"
      THEN IF advGrad.area # <<>>
           THEN LET a == advGrad.area[1]
                IN  <<"createLinearGradient",
                      <<remap(a.startX, w, pw), remap(a.startY, h, ph),
                        remap(a.endX, w, pw), remap(a.endY, h, ph)>>>>
           ELSE full
      ELSE IF advGrad.type = "radial"
      THEN IF advGrad.area # <<>>
           THEN LET a == advGrad.area[1]
                    sx == RDiv(w, R(pw))
                    sy == RDiv(h, R(ph))
                    ex == RMul(R(a.endX - a.startX), sx)
                    ey == RMul(R(a.endY - a.startY), sy)
                IN  <<"createRadialGradient",
                      <<RSub(RMul(RDiv(R(a.startX + a.endX), R(2)), sx),
                             RDiv(w, R(2))),
                        RSub(RMul(RDiv(R(a.startY + a.endY), R(2)), sy),
                             RDiv(h, R(2))),
                        RDiv(RAdd(RMul(ex, ex), RMul(ey, ey)), R(4))>>>>
           ELSE LET m == RDiv(RMin(w, h), R(2))
                IN  <<"createRadialGradient", <<R(0), R(0), RMul(m, m)>>>>
      ELSE full

\* The rectangle the gradient is filled into, in the same frame
gradientFillRect(asset, advGrad) ==
  LET w == asset.width
      h == asset.height
      pw == previewWidth(advGrad)
      ph == previewHeight(advGrad)
  IN  IF advGrad.area # <<>>
      THEN LET a == advGrad.area[1]
           IN  <<remap(a.startX, w, pw), remap(a.startY, h, ph),
                 RMul(R(Abs(a.endX - a.startX)), RDiv(w, R(pw))),
                 RMul(R(Abs(a.endY - a.startY)), RDiv(h, R(ph)))>>
      ELSE <<RSub(R(0), RDiv(w, R(2))), RSub(R(0), RDiv(h, R(2))), w, h>>

\* What the body of assets.forEach draws for one asset whose image is in the
\* cache: the bitmap (with ctx.filter), the advanced gradient, and after
\* ctx.restore() the selection border, handles and hint of a selected asset.
\* origin is the translation in force; the simple gradient overlay and the
\* border stroke, which no property here looks at, are left out.
drawAsset(asset) ==
  LET e == asset.effects
      centre == <<RAdd(asset.x, RDiv(asset.width, R(2))),
                  RAdd(asset.y, RDiv(asset.height, R(2)))>>
      bitmap ==
        IF e # <<>>
        THEN <<[op |-> "drawImage", id |-> asset.id, origin |-> centre,
                args |-> <<RSub(R(0), RDiv(asset.width, R(2))),
                           RSub(R(0), RDiv(asset.height, R(2))),
                           asset.width, asset.height>>,
                filter |-> filters(e)]>>
        ELSE <<[op |-> "drawImage", id |-> asset.id, origin |-> <<R(0), R(0)>>,
                args |-> <<asset.x, asset.y, asset.width, asset.height>>,
                filter |-> <<>>]>>
      gradient ==
        IF e # <<>> /\ HasKey(e, "advancedGradient")
        THEN LET advGrad == GetKey(e, "advancedGradient")
             IN  <<[op |-> createGradient(asset, advGrad)[1], id |-> asset.id,
                    origin |-> centre,
                    args |-> createGradient(asset, advGrad)[2],
                    filter |-> filters(e)],
                   [op |-> "fillRect", id |-> asset.id, origin |-> centre,
                    args |-> gradientFillRect(asset, advGrad),
                    filter |-> filters(e)]>>
        ELSE <<>>
      selection ==
        IF asset.selected
        THEN <<[op |-> "selection", id |-> asset.id, origin |-> <<R(0), R(0)>>,
                args |-> <<RSub(asset.x, R(1)), RSub(asset.y, R(1)),
                           RAdd(asset.width, R(2)), RAdd(asset.height, R(2))>>,
                filter |-> <<>>]>>
        ELSE <<>>
  IN  bitmap \o gradient \o selection

\* drawCanvas: the operations on the 2d context after the background, in
\* order; an asset whose image is not in the cache draws nothing.
RECURSIVE drawCanvas(_, _)
drawCanvas(list, cache) ==
  IF list = <<>> THEN <<>>
  ELSE (IF Head(list).id \in cache THEN drawAsset(Head(list)) ELSE <<>>)
         \o drawCanvas(Tail(list), cache)

\* ---------------------------------------------------------- specification
Init ==
  /\ assets = <<>>
  /\ loadedImages = {}
  /\ selectedAssetId = Null
  /\ isDragging = FALSE
  /\ isResizing = FALSE
  /\ resizeHandle = "null"
  /\ dragOffset = <<R(0), R(0)>>
  /\ initialAssetState = <<>>
  /\ contextMenu = Null
  \* the history effect has run once on the empty scene at mount
  /\ history = TrackHistory(<<>>, <<>>, -1).history
  /\ historyIndex = TrackHistory(<<>>, <<>>, -1).historyIndex
  /\ pending = <<>>
  /\ now = 0
  /\ toast = <<>>
  /\ saveResult = <<>>
  /\ colorStops = defaultColorStops
  /\ selectedColorStop = Null
  /\ debounce = <<>>

\* Drop and decode, selection, deletion, effects, undo and redo
Next ==
  \/ \E item \in Items, p \in DropPoints : Drop(item, p)
  \/ \E i \in 1..Len(pending), t \in now..MaxClock : ImgOnLoad(i, t)
  \/ \E i \in 1..Len(pending) : ImgOnError(i)
  \/ \E p \in ClickPoints : HandleCanvasClick(p)
  \/ \E p \in ClickPoints : HandleContextMenu(p)
  \/ HandleClickOutside
  \/ HandleDeleteAsset
  \/ HandleKeyDown
  \/ \E e \in EffectInputs : ApplyEffect(e[1], e[2])
  \/ HandleUndo
  \/ HandleRedo

Spec == Init /\ [][Next]_vars


\* Pointer gestures on the placed assets
NextGesture ==
  \/ \E item \in Items, p \in DropPoints : Drop(item, p)
  \/ \E i \in 1..Len(pending), t \in now..MaxClock : ImgOnLoad(i, t)
  \/ \E p \in GesturePoints : HandleCanvasClick(p)
  \/ \E p \in GesturePoints : HandleMouseDown(p)
  \/ \E p \in GesturePoints : HandleMouseMove(p)
  \/ HandleMouseUp

SpecGesture == Init /\ [][NextGesture]_vars

\* Saving the poster while assets are placed and removed
NextSave ==
  \/ \E item \in Items, p \in DropPoints : Drop(item, p)
  \/ \E i \in 1..Len(pending), t \in now..MaxClock : ImgOnLoad(i, t)
  \/ \E p \in ClickPoints : HandleCanvasClick(p)
  \/ HandleKeyDown
  \/ \E f \in BOOLEAN, c \in BOOLEAN, d \in BOOLEAN :
       HandleSave(f, c, d, 1, [k \in 1..Len(assets) |-> k])

SpecSave == Init /\ [][NextSave]_vars

\* Exporting scenes of placed, moved and resized assets
ExportRects ==
  {<<R(10), R(10), R(50), R(50)>>,
   <<R(100), R(100), R(30), R(30)>>,
   <<R(0), R(0), R(200), R(100)>>,
   <<R(150), R(20), R(100), R(200)>>,
   <<Norm(25, 2), R(40), R(75), Norm(75, 2)>>}

ExportAsset(r) ==
  [id |-> <<"a", r[1][1] + r[2][1]>>, src |-> "a", x |-> r[1], y |-> r[2],
   width |-> r[3], height |-> r[4], selected |-> FALSE, effects |-> <<>>]

ExportScenes ==
  UNION {{[k \in 1..n |-> ExportAsset(q[k])] :
            q \in {q \in [1..n -> ExportRects] :
                     \A i, j \in 1..n : q[i] = q[j] => i = j}} :
           n \in 1..MaxAssets}

Scales == {1, 2}

InitExport ==
  /\ assets \in ExportScenes
  /\ loadedImages = {assets[i].id : i \in 1..Len(assets)}
  /\ selectedAssetId = Null
  /\ isDragging = FALSE
  /\ isResizing = FALSE
  /\ resizeHandle = "null"
  /\ dragOffset = <<R(0), R(0)>>
  /\ initialAssetState = <<>>
  /\ contextMenu = Null
  /\ history = <<<<>>, DeepCopy(assets)>>
  /\ historyIndex = 1
  /\ pending = <<>>
  /\ now = 0
  /\ toast = <<>>
  /\ saveResult = <<>>
  /\ colorStops = defaultColorStops
  /\ selectedColorStop = Null
  /\ debounce = <<>>

\* (one export per run)
NextExport ==
  \/ /\ saveResult = <<>>
     /\ \E f \in BOOLEAN, c \in BOOLEAN, d \in BOOLEAN, scale \in Scales,
           o \in Orders(Len(assets)) : HandleSave(f, c, d, scale, o)
  \/ \E p \in ClickPoints : HandleCanvasClick(p)

SpecExport == InitExport /\ [][NextExport]_vars

\* Placing images of several shapes at several points
NextPlace ==
  \/ \E item \in PlaceItems, p \in PlacePoints : Drop(item, p)
  \/ \E i \in 1..Len(pending), t \in now..MaxClock : ImgOnLoad(i, t)
  \/ \E i \in 1..Len(pending) : ImgOnError(i)

SpecPlace == Init /\ [][NextPlace]_vars

\* Editing the colour stops of a gradient
NextGradient ==
  \/ \E id \in StopIds, raw \in BarPositions : HandleColorStopDrag(id, raw)
  \/ \E raw \in BarPositions, t \in now..MaxClock : AddColorStop(raw, t)
  \/ \E id \in StopIds : DeleteColorStop(id)
  \/ \E name \in Presets, t \in now..MaxClock : ApplyPreset(name, t)
  \/ \E id \in StopIds : SelectColorStop(id)
  \/ \E color \in StopColors : UpdateColorStopColor(color)

SpecGradient == Init /\ [][NextGradient]_vars


\* Rendering assets that carry an advanced gradient
GradientTypes == {"linear", "radial", "conic"}
\* areas drawn left to right, right to left, and over the whole preview
GradientAreas ==
  {[startX |-> 100, startY |-> 60, endX |-> 300, endY |-> 180],
   [startX |-> 300, startY |-> 180, endX |-> 100, endY |-> 60],
   [startX |-> 0, startY |-> 0, endX |-> 400, endY |-> 240]}
PreviewSizes == {[width |-> 400, height |-> 240], [width |-> 200, height |-> 120]}

GradientConfigs ==
  [type : GradientTypes,
   colorStops : {defaultColorStops},
   area : {<<>>} \cup {<<a>> : a \in GradientAreas},
   previewDimensions : {<<>>} \cup {<<d>> : d \in PreviewSizes}]

\* x, y, width, height of the asset rendered
RenderRects ==
  {<<R(0), R(0), R(800), R(480)>>,
   <<R(100), R(50), R(200), R(100)>>,
   <<R(20), R(30), R(150), R(225)>>}

RenderAsset(r, config) ==
  [id |-> <<"a", 0>>, src |-> "a", x |-> r[1], y |-> r[2],
   width |-> r[3], height |-> r[4], selected |-> FALSE,
   effects |-> <<<<"advancedGradient", config>>>>]

InitRender ==
  /\ assets \in {<<RenderAsset(r, c)>> : r \in RenderRects, c \in GradientConfigs}
  /\ loadedImages = {assets[i].id : i \in 1..Len(assets)}
  /\ selectedAssetId = Null
  /\ isDragging = FALSE
  /\ isResizing = FALSE
  /\ resizeHandle = "null"
  /\ dragOffset = <<R(0), R(0)>>
  /\ initialAssetState = <<>>
  /\ contextMenu = Null
  /\ history = <<<<>>, DeepCopy(assets)>>
  /\ historyIndex = 1
  /\ pending = <<>>
  /\ now = 0
  /\ toast = <<>>
  /\ saveResult = <<>>
  /\ colorStops = defaultColorStops
  /\ selectedColorStop = Null
  /\ debounce = <<>>

NextRender ==
  \/ \E p \in ClickPoints : HandleCanvasClick(p)
  \/ \E type \in GradientTypes : HandleAdvancedGradientApply(type)
  \/ \E e \in EffectInputs : ApplyEffect(e[1], e[2])

SpecRender == InitRender /\ [][NextRender]_vars

\* Pointer gestures that end with the release of the button over the canvas
NextRelease ==
  \/ NextGesture
  \/ \E p \in GesturePoints : PointerRelease(p)

SpecRelease == Init /\ [][NextRelease]_vars

\* Effect edits between pointer gestures
NextEffects ==
  \/ NextGesture
  \/ \E e \in EffectInputs : ApplyEffect(e[1], e[2])
  \/ HandleAdvancedGradientApply("linear")
  \/ \E e \in EffectInputs : UpdateEffects(e[1], e[2])
  \/ DebounceFires

SpecEffects == Init /\ [][NextEffects]_vars

\* ================================================================ claims
Selected(list) == {i \in 1..Len(list) : list[i].selected}

\* The structure the claims speak of, stated apart from the code's hash:
\* the same assets in the same order with the same effects and geometry.
SameStructure(a, b) ==
  /\ Len(a) = Len(b)
  /\ \A i \in 1..Len(a) :
       /\ a[i].id = b[i].id /\ a[i].effects = b[i].effects
       /\ a[i].x = b[i].x /\ a[i].y = b[i].y
       /\ a[i].width = b[i].width /\ a[i].height = b[i].height

\* C1: at most one asset of the scene has selected = true, in every state.
C1_SingleSelection == Cardinality(Selected(assets)) <= 1

\* C2: undo followed by redo gives back the scene that existed before the
\* undo: wherever undo acts, the scene redo then restores has the structure
\* of the present scene.
C2_UndoRedoRoundTrip ==
  LET u == undo(history, historyIndex)
      r == redo(history, u.historyIndex)
  IN  u.ok => r.ok /\ SameStructure(r.assets, assets)

InBounds(asset) ==
  /\ RLe(R(0), asset.x)
  /\ RLe(R(0), asset.y)
  /\ RLe(RAdd(asset.x, asset.width), R(displayWidth))
  /\ RLe(RAdd(asset.y, asset.height), R(displayHeight))

\* A pointer move that drags or resizes
MoveStep == \E p \in GesturePoints : HandleMouseMove(p)
Manipulating == selectedAssetId # Null /\ (isDragging \/ isResizing)
ResizingOnly ==
  /\ selectedAssetId # Null /\ ~isDragging /\ isResizing
  /\ resizeHandle # "null" /\ initialAssetState # <<>>

\* C3: after every pointer move applied while dragging or resizing, the
\* manipulated asset lies within the canvas: 0 <= x, 0 <= y,
\* x + width <= canvasWidth, y + height <= canvasHeight.
C3_BoundsInvariant ==
  [][MoveStep /\ Manipulating =>
       \A i \in 1..Len(assets) :
         assets[i].id = selectedAssetId => InBounds(assets'[i])]_vars

\* C4: after every corner-resize move the resized asset has the aspect ratio
\* of the snapshot taken at pointer-down: width * h0 = height * w0.
C4_AspectRatioPreserved ==
  [][MoveStep /\ ResizingOnly =>
       \A i \in 1..Len(assets) :
         assets[i].id = selectedAssetId =>
           RMul(assets'[i].width, initialAssetState[1].height)
             = RMul(assets'[i].height, initialAssetState[1].width)]_vars

\* A resize move has scaled the asset away from the snapshot taken at
\* pointer-down, by a factor that leaves a fractional width.
C4_Witness ==
  /\ ResizingOnly
  /\ \E i \in 1..Len(assets) :
       /\ assets[i].id = selectedAssetId
       /\ assets[i].width # initialAssetState[1].width
       /\ assets[i].width[2] # 1

\* A step that changes the structure of the scene and is no undo or redo
MutationStep ==
  /\ ~SameStructure(assets', assets)
  /\ ~HandleUndo
  /\ ~HandleRedo

\* C5: a scene mutation made while redo entries exist discards them: the
\* history becomes its entries up to the current index followed by the new
\* snapshot, which is the current index, so that redo has nothing to do.
C5_RedoDiscardedOnMutation ==
  [][MutationStep /\ historyIndex < Len(history) - 1 =>
       /\ history' = Append(SubSeq(history, 1, historyIndex + 1), assets')
       /\ historyIndex' = Len(history') - 1
       /\ ~redo(history', historyIndex').ok]_vars

\* C6: a scene change with the structure of the snapshot at the current
\* index pushes no entry (history and index stay), and undo and redo leave
\* the history as it is.
C6_Coalescing ==
  [][/\ (~HandleUndo /\ ~HandleRedo
           /\ SameStructure(assets', history[historyIndex + 1]))
          => UNCHANGED <<history, historyIndex>>
     /\ (HandleUndo \/ HandleRedo) => UNCHANGED history]_vars

\* A selection made after the current snapshot was taken pushed no entry.
C6_Witness ==
  /\ Len(history) >= 2
  /\ historyIndex = Len(history) - 1
  /\ SameStructure(assets, history[historyIndex + 1])
  /\ \E i \in 1..Len(assets) :
       assets[i].selected /\ ~history[historyIndex + 1][i].selected

\* C7: undo at historyIndex <= 0 and redo at historyIndex >= length - 1
\* leave history, historyIndex and the scene unchanged.
C7_BoundaryNoOp ==
  [][/\ (HandleUndo /\ historyIndex <= 0)
          => UNCHANGED <<history, historyIndex, assets>>
     /\ (HandleRedo /\ historyIndex >= Len(history) - 1)
          => UNCHANGED <<history, historyIndex, assets>>]_vars

\* Undo has gone back to the first entry, where a further undo has no
\* entry to go to, with a scene on the canvas and entries left to redo.
C7_Witness ==
  /\ historyIndex = 0
  /\ Len(history) > 1
  /\ toast = <<"Undo successful", "info">>

\* What a delete of the asset at index i is to leave
DeletedExactly(i) ==
  /\ assets' = RemoveAt(assets, i)
  /\ assets[i].id \notin loadedImages'
  /\ Selected(assets') = {}

\* C8: Delete or Backspace with a selected asset, and the context menu's
\* delete, remove exactly that asset and its cache entry, leave nothing
\* selected and leave the other assets as they are; with nothing selected
\* the key changes nothing.
C8_DeleteExactlySelected ==
  [][/\ HandleKeyDown =>
          IF SelectedIndex(assets) # 0
          THEN DeletedExactly(SelectedIndex(assets))
          ELSE UNCHANGED <<assets, loadedImages>>
     /\ HandleDeleteAsset =>
          \A i \in 1..Len(assets) :
            assets[i].id = contextMenu => DeletedExactly(i)]_vars

\* C9: a failed decode appends nothing to the scene and inserts nothing in
\* the bitmap cache (assets, selection and history stay) and emits an error
\* notification.
C9_DecodeFailure ==
  [][(\E i \in 1..Len(pending) : ImgOnError(i)) =>
       /\ UNCHANGED <<assets, loadedImages, selectedAssetId, history,
                      historyIndex>>
       /\ toast' # <<>>
       /\ toast'[2] = "error"]_vars

\* The only drop of the run has failed: the error is shown, the canvas and
\* the cache are empty and the history holds the mount entry alone.
C9_Witness ==
  /\ toast = <<"Failed to load image", "error">>
  /\ pending = <<>>
  /\ assets = <<>>
  /\ loadedImages = {}
  /\ Len(history) = 1

\* C10: a save requested with no placed asset makes no output surface and
\* issues no upload request.
C10_EmptyExportRejected ==
  \A k \in 1..Len(saveResult) :
    saveResult[k].assets = 0 => ~saveResult[k].surface /\ ~saveResult[k].upload

\* A save was requested on a canvas emptied by a delete.
C10_Witness ==
  /\ saveResult # <<>>
  /\ saveResult[1].assets = 0
  /\ toast = <<"Image removed from canvas", "success">>


\* A handleSave step: saveResult takes what the save produced
SaveStep == saveResult' # saveResult /\ saveResult' # <<>>

\* C11: the export surface of a non-empty scene has the logical size
\* (max(x+width) - min(x), max(y+height) - min(y)) over all assets, with no
\* padding, and every asset drawn is drawn at (x - minX, y - minY) with its
\* stored width and height.
C11_TightCrop ==
  [][SaveStep /\ saveResult'[1].surface =>
       LET cv == saveResult'[1].canvas[1]
           n == Len(assets)
       IN  \E l \in 1..n, r \in 1..n, t \in 1..n, b \in 1..n :
             /\ \A i \in 1..n :
                  /\ RLe(assets[l].x, assets[i].x)
                  /\ RLe(assets[t].y, assets[i].y)
                  /\ RLe(RAdd(assets[i].x, assets[i].width),
                         RAdd(assets[r].x, assets[r].width))
                  /\ RLe(RAdd(assets[i].y, assets[i].height),
                         RAdd(assets[b].y, assets[b].height))
             /\ cv.width = RSub(RAdd(assets[r].x, assets[r].width), assets[l].x)
             /\ cv.height = RSub(RAdd(assets[b].y, assets[b].height), assets[t].y)
             /\ \A k \in 1..Len(cv.draws) :
                  \E i \in 1..n :
                    /\ cv.draws[k].id = assets[i].id
                    /\ cv.draws[k].x = RSub(assets[i].x, assets[l].x)
                    /\ cv.draws[k].y = RSub(assets[i].y, assets[t].y)
                    /\ cv.draws[k].width = assets[i].width
                    /\ cv.draws[k].height = assets[i].height]_vars

\* The example of the claim: assets (10,10,50,50) and (100,100,30,30) were
\* exported to a 120x120 surface with the first asset drawn at (0,0).
C11_Witness ==
  /\ saveResult # <<>>
  /\ saveResult[1].surface
  /\ Len(assets) = 2
  /\ <<assets[1].x, assets[1].y, assets[1].width, assets[1].height>>
       = <<R(10), R(10), R(50), R(50)>>
  /\ <<assets[2].x, assets[2].y, assets[2].width, assets[2].height>>
       = <<R(100), R(100), R(30), R(30)>>
  /\ saveResult[1].canvas[1].width = R(120)
  /\ saveResult[1].canvas[1].height = R(120)
  /\ Len(saveResult[1].canvas[1].draws) = 2
  /\ \E k \in 1..2 :
       /\ saveResult[1].canvas[1].draws[k].id = assets[1].id
       /\ saveResult[1].canvas[1].draws[k].x = R(0)
       /\ saveResult[1].canvas[1].draws[k].y = R(0)

\* C12: an asset whose image cannot be fetched or decoded during the export
\* is left out of the raster and the export completes with the others: with
\* a valid form, a canvas and a non-empty scene the surface is made and the
\* upload requested whichever images fail, and the images drawn are those
\* that loaded.
C12_FetchFailureSkipped ==
  [][SaveStep =>
       LET q == saveResult'[1].request
       IN  q.formValid /\ q.canvasAvailable /\ Len(assets) > 0 =>
             /\ saveResult'[1].surface
             /\ saveResult'[1].upload = q.delivered
             /\ Len(saveResult'[1].canvas[1].draws) = Len(q.loaded)
             /\ \A k \in 1..Len(q.loaded) :
                  saveResult'[1].canvas[1].draws[k].id
                    = assets[q.loaded[k]].id]_vars

\* An export of two assets went to upload with one of them left out.
C12_Witness ==
  /\ saveResult # <<>>
  /\ saveResult[1].assets = 2
  /\ Len(saveResult[1].request.loaded) = 1
  /\ saveResult[1].surface
  /\ saveResult[1].upload
  /\ Len(saveResult[1].canvas[1].draws) = 1


\* C13: a gradient never has fewer than 2 colour stops: a delete at exactly
\* 2 stops is rejected, so colorStops.length >= 2 after any sequence of add,
\* delete, drag, recolor and preset operations.
C13_StopFloor == Len(colorStops) >= 2


\* C14: the ids of the assets of the scene are pairwise distinct in every
\* reachable state, also when one source asset is dropped several times and
\* decodes complete close together.
C14_UniqueIds ==
  \A i, j \in 1..Len(assets) : assets[i].id = assets[j].id => i = j

Idle == ~isDragging /\ ~isResizing

\* p lies on a corner handle of the asset: within handleSize / 2 of a corner
\* in both directions
OnCornerHandle(asset, p) ==
  \E cx \in {asset.x, RAdd(asset.x, asset.width)},
     cy \in {asset.y, RAdd(asset.y, asset.height)} :
    /\ RLe(RAbs(RSub(R(p[1]), cx)), R(handleSize \div 2))
    /\ RLe(RAbs(RSub(R(p[2]), cy)), R(handleSize \div 2))

\* C15: isDragging and isResizing are never both true; from Idle a
\* pointer-down on a corner handle of the selected asset enters Resizing
\* (handles before the body), one elsewhere inside its body enters Dragging,
\* any other one stays Idle; pointer-up returns to Idle and clears the resize
\* handle and the initial snapshot.
C15_ManipulationStates ==
  [][/\ ~(isDragging' /\ isResizing')
     /\ \A p \in GesturePoints :
          HandleMouseDown(p) /\ Idle =>
            LET i == SelectedIndex(assets)
            IN  IF i # 0 /\ OnCornerHandle(assets[i], p)
                THEN isResizing' /\ ~isDragging'
                ELSE IF i # 0 /\ Inside(assets[i], p)
                THEN isDragging' /\ ~isResizing'
                ELSE Idle'
     /\ HandleMouseUp =>
          Idle' /\ resizeHandle' = "null" /\ initialAssetState' = <<>>]_vars

\* The asset at index i contains p and no asset above it does
Topmost(list, i, p) ==
  /\ Inside(list[i], p)
  /\ \A j \in (i + 1)..Len(list) : ~Inside(list[j], p)

\* C16: a click selects the topmost asset whose box contains the point and
\* deselects every other asset; a click in no asset's box deselects all.
C16_ClickSelectsTopmost ==
  [][\A p \in GesturePoints :
       HandleCanvasClick(p) =>
         \A i \in 1..Len(assets) :
           assets'[i].selected <=> Topmost(assets, i, p)]_vars

\* The corner of a rectangle opposite a handle
OppositeCorner(asset, handle) ==
  <<IF handle \in {"tl", "bl"} THEN RAdd(asset.x, asset.width) ELSE asset.x,
    IF handle \in {"tl", "tr"} THEN RAdd(asset.y, asset.height) ELSE asset.y>>

\* C17: on every corner-resize move the corner opposite the dragged handle
\* stays where the snapshot of pointer-down has it.
C17_OppositeCornerFixed ==
  [][MoveStep /\ ResizingOnly =>
       \A i \in 1..Len(assets) :
         assets[i].id = selectedAssetId =>
           OppositeCorner(assets'[i], resizeHandle)
             = OppositeCorner(initialAssetState[1], resizeHandle)]_vars

\* C18: after every resize move the width and the height of the asset are
\* both > 0 and neither is below the minimum size of 20.
C18_MinimumSize ==
  [][MoveStep /\ ResizingOnly =>
       \A i \in 1..Len(assets) :
         assets[i].id = selectedAssetId =>
           /\ RLt(R(0), assets'[i].width) /\ RLt(R(0), assets'[i].height)
           /\ RLe(R(minSize), assets'[i].width)
           /\ RLe(R(minSize), assets'[i].height)]_vars

\* C19: a decode that completes appends exactly one new, unselected asset,
\* made from that drop, at the end of the list and puts its bitmap in the
\* cache; the assets and the cache entries there were stay as they are, and
\* the other pending drops stay pending.
C19_DecodeAppends ==
  [][\A i \in 1..Len(pending), t \in now..MaxClock :
       ImgOnLoad(i, t) =>
         LET a == assets'[Len(assets')]
         IN  /\ Len(assets') = Len(assets) + 1
             /\ SubSeq(assets', 1, Len(assets)) = assets
             /\ ~a.selected
             /\ a.src = pending[i].item
             /\ a.id \in loadedImages'
             /\ loadedImages \subseteq loadedImages'
             /\ pending' = RemoveAt(pending, i)]_vars

\* Two drops were decoded one after the other: the asset of the drop at
\* <<200, 100>> lies below the asset of the drop at <<100, 50>>, decoded
\* later, both unselected and cached, nothing pending.
C19_Witness ==
  /\ Len(assets) = 2
  /\ pending = <<>>
  /\ assets[1].x = R(100) /\ assets[2].x = R(0)
  /\ assets[1].id # assets[2].id
  /\ ~assets[1].selected /\ ~assets[2].selected
  /\ {assets[1].id, assets[2].id} \subseteq loadedImages

\* C20: an image of natural size (nw, nh) decoded after a drop at (px, py)
\* is placed with width <= 200 and height <= 200, not larger than its
\* natural size, with width / height = nw / nh, centred on the drop point
\* (x = px - width / 2, y = py - height / 2) and within the canvas.
C20_PlacementGeometry ==
  [][\A i \in 1..Len(pending), t \in now..MaxClock :
       ImgOnLoad(i, t) =>
         LET a == assets'[Len(assets')]
             nw == naturalWidth(pending[i].item)
             nh == naturalHeight(pending[i].item)
         IN  /\ RLe(a.width, R(maxWidth)) /\ RLe(a.height, R(maxHeight))
             /\ RLe(a.width, R(nw)) /\ RLe(a.height, R(nh))
             /\ RMul(a.width, R(nh)) = RMul(a.height, R(nw))
             /\ a.x = RSub(R(pending[i].x), RDiv(a.width, R(2)))
             /\ a.y = RSub(R(pending[i].y), RDiv(a.height, R(2)))
             /\ InBounds(a)]_vars

\* The rectangle of a draw operation in canvas coordinates: <<x, y, w, h>>
Box(o) ==
  <<RAdd(o.origin[1], o.args[1]), RAdd(o.origin[2], o.args[2]),
    o.args[3], o.args[4]>>

\* Two rectangles share an area
Overlaps(a, b) ==
  /\ RLt(a[1], RAdd(b[1], b[3])) /\ RLt(b[1], RAdd(a[1], a[3]))
  /\ RLt(a[2], RAdd(b[2], b[4])) /\ RLt(b[2], RAdd(a[2], a[4]))

\* The four handle squares of a selection operation: handleSize squares
\* centred on the corners of the asset, which the border surrounds by 1
HandleSquares(o) ==
  LET x == RAdd(Box(o)[1], R(1))
      y == RAdd(Box(o)[2], R(1))
      w == RSub(Box(o)[3], R(2))
      h == RSub(Box(o)[4], R(2))
  IN  {<<RSub(cx, R(handleSize \div 2)), RSub(cy, R(handleSize \div 2)),
         R(handleSize), R(handleSize)>> :
         cx \in {x, RAdd(x, w)}, cy \in {y, RAdd(y, h)}}

\* C21: in every render no asset bitmap is painted over the selection
\* decoration: no bitmap drawn after the decoration of the selected asset
\* shares an area with one of its corner handles.
C21_DecorationOnTop ==
  LET ops == drawCanvas(assets, loadedImages)
  IN  \A k, m \in 1..Len(ops) :
        k < m /\ ops[k].op = "selection" /\ ops[m].op = "drawImage" =>
          \A sq \in HandleSquares(ops[k]) : ~Overlaps(Box(ops[m]), sq)

\* The effects field a component of the filter is made from
FilterField(component) ==
  CASE component = "saturate" -> "saturation"
    [] component = "hue-rotate" -> "hue"
    [] OTHER -> component

\* The field deviates from its identity default (0, or false for invert);
\* a field that was never set has its default
Deviates(effects, field) ==
  /\ HasKey(effects, field)
  /\ GetKey(effects, field) # (IF field = "invert" THEN FALSE ELSE 0)

\* C22: for every effect stack made through the effect controls, the filter
\* applied when the asset is drawn has a component for brightness, contrast,
\* saturation, hue, blur, sepia, grayscale or invert only if the value of
\* that field deviates from its identity default.
C22_FilterOnlyDeviations ==
  \A i \in 1..Len(assets) :
    assets[i].effects # <<>> =>
      LET f == drawAsset(assets[i])[1].filter
      IN  \A k \in 1..Len(f) :
            Deviates(assets[i].effects, FilterField(f[k][1]))

\* coord * (assetSize / previewSize) - assetSize / 2, stated apart from the
\* code's operators: (2 * coord - previewSize) * assetSize / (2 * previewSize)
Remapped(coord, assetSize, previewSize) ==
  Norm((2 * coord - previewSize) * assetSize[1], 2 * previewSize * assetSize[2])

\* C23: for an advanced gradient with an area, every area coordinate is
\* remapped into the asset-centred frame as coord * (assetSize / previewSize)
\* - assetSize / 2, on X and on Y, with the preview taken as 400x240 when
\* previewDimensions is absent: the ends of a linear gradient are the
\* remapped start and end points, a radial gradient is centred midway
\* between them with half their distance as radius, and the rectangle filled
\* starts at the remapped start point and spans the distance between the
\* remapped points.
C23_GradientAreaRemap ==
  \A i \in 1..Len(assets) :
    LET e == assets[i].effects
    IN  (e # <<>> /\ HasKey(e, "advancedGradient")
           /\ GetKey(e, "advancedGradient").area # <<>>) =>
          LET g == GetKey(e, "advancedGradient")
              a == g.area[1]
              pw == IF g.previewDimensions = <<>> THEN 400
                    ELSE g.previewDimensions[1].width
              ph == IF g.previewDimensions = <<>> THEN 240
                    ELSE g.previewDimensions[1].height
              w == assets[i].width
              h == assets[i].height
              ops == drawCanvas(<<assets[i]>>, loadedImages)
              sx == Remapped(a.startX, w, pw)
              sy == Remapped(a.startY, h, ph)
              ex == Remapped(a.endX, w, pw)
              ey == Remapped(a.endY, h, ph)
          IN  /\ Len(ops) >= 3
              /\ ops[2].origin = <<RAdd(assets[i].x, RDiv(w, R(2))),
                                   RAdd(assets[i].y, RDiv(h, R(2)))>>
              /\ g.type = "linear" =>
                   /\ ops[2].op = "createLinearGradient"
                   /\ ops[2].args = <<sx, sy, ex, ey>>
              /\ g.type = "radial" =>
                   /\ ops[2].op = "createRadialGradient"
                   /\ ops[2].args[1] = RDiv(RAdd(sx, ex), R(2))
                   /\ ops[2].args[2] = RDiv(RAdd(sy, ey), R(2))
                   /\ ops[2].args[3] =
                        RDiv(RAdd(RMul(RSub(ex, sx), RSub(ex, sx)),
                                  RMul(RSub(ey, sy), RSub(ey, sy))), R(4))
              /\ ops[3].op = "fillRect"
              /\ ops[3].origin = ops[2].origin
              /\ ops[3].args = <<sx, sy, RAbs(RSub(ex, sx)), RAbs(RSub(ey, sy))>>

\* The example of the claim is on the canvas: startX = 100 captured at a
\* preview 400 wide, on an asset 800 wide, drawn as a linear gradient that
\* starts at local x = -200.
C23_Witness ==
  /\ Len(assets) = 1
  /\ assets[1].width = R(800)
  /\ assets[1].selected
  /\ HasKey(assets[1].effects, "advancedGradient")
  /\ GetKey(assets[1].effects, "advancedGradient").type = "linear"
  /\ GetKey(assets[1].effects, "advancedGradient").area # <<>>
  /\ GetKey(assets[1].effects, "advancedGradient").area[1].startX = 100
  /\ GetKey(assets[1].effects, "advancedGradient").previewDimensions = <<>>
  /\ drawCanvas(assets, loadedImages)[2].op = "createLinearGradient"
  /\ drawCanvas(assets, loadedImages)[2].args[1] = R(-200)

\* C24: in every reachable state the canvas's selectedAssetId is the id of
\* the asset whose selected flag is true, and null when no asset is selected,
\* also after undo, redo or an effect update replaced the list.
C24_SelectionIdAgrees ==
  IF Selected(assets) = {} THEN selectedAssetId = Null
  ELSE \A i \in Selected(assets) : assets[i].id = selectedAssetId

\* C25: when a drag or resize gesture ends with pointer-up and the click at
\* the release point, the asset that was manipulated is still the selected
\* asset: it is not deselected and no other asset is selected.
C25_GestureKeepsSelection ==
  [][\A p \in GesturePoints :
       PointerRelease(p) /\ selectedAssetId # Null =>
         /\ selectedAssetId' = selectedAssetId
         /\ \A i \in 1..Len(assets) :
              assets'[i].selected <=> assets[i].id = selectedAssetId]_vars

\* C26: once the history effect has run on a scene change, the snapshot at
\* the current history index has the structure of the current scene, for
\* every scene, the empty one included.
C26_HistoryTracksScene ==
  /\ historyIndex >= 0 /\ historyIndex < Len(history)
  /\ SameStructure(history[historyIndex + 1], assets)

\* C27: after any sequence of drops, deletes, undo and redo, every asset of
\* the scene has an entry in the bitmap cache under its id, so that the
\* renderer draws it.
C27_SceneAssetsCached ==
  \A i \in 1..Len(assets) :
    /\ assets[i].id \in loadedImages
    /\ \E k \in 1..Len(drawCanvas(assets, loadedImages)) :
         /\ drawCanvas(assets, loadedImages)[k].op = "drawImage"
         /\ drawCanvas(assets, loadedImages)[k].id = assets[i].id

\* The index in the scene of the asset with this id
SceneIndex(list, id) == CHOOSE i \in 1..Len(list) : list[i].id = id

\* C28: the exported raster composites the assets in scene array order,
\* whatever the order in which the re-fetched images load: of two drawn
\* assets that share an area, the one later in the array is painted later.
C28_ExportZOrder ==
  [][SaveStep /\ saveResult'[1].surface =>
       LET draws == saveResult'[1].canvas[1].draws
       IN  \A k, m \in 1..Len(draws) :
             (k < m /\ Overlaps(<<draws[k].x, draws[k].y, draws[k].width,
                                  draws[k].height>>,
                                <<draws[m].x, draws[m].y, draws[m].width,
                                  draws[m].height>>)) =>
               SceneIndex(assets, draws[k].id) < SceneIndex(assets, draws[m].id)]_vars

\* C29: an effect update (applyEffect, the page's handleAdvancedGradientApply,
\* or the timer of ImageEditingTools.updateEffects firing) leaves the
\* position, the size and the selected flag of every asset and the order of
\* the list as they were immediately before it.
EffectUpdateStep ==
  \/ \E e \in EffectInputs : ApplyEffect(e[1], e[2])
  \/ HandleAdvancedGradientApply("linear")
  \/ DebounceFires

SameFrame(a, b) ==
  /\ a.id = b.id /\ a.x = b.x /\ a.y = b.y
  /\ a.width = b.width /\ a.height = b.height /\ a.selected = b.selected

C29_EffectUpdateFrame ==
  [][EffectUpdateStep =>
       /\ Len(assets') = Len(assets)
       /\ \A k \in 1..Len(assets) : SameFrame(assets'[k], assets[k])]_vars

\* C30: while a corner handle is held, a pointer displaced diagonally away
\* from the opposite corner gives a scale factor above 1, one displaced
\* diagonally toward it gives a scale factor below 1 (or the minimum-size
\* floor), and a move with zero displacement leaves the asset with the
\* geometry of the snapshot taken at pointer-down.
AwayFromOpposite(handle, dx, dy) ==
  CASE handle = "tl" -> RLt(dx, R(0)) /\ RLt(dy, R(0))
    [] handle = "tr" -> RLt(R(0), dx) /\ RLt(dy, R(0))
    [] handle = "bl" -> RLt(dx, R(0)) /\ RLt(R(0), dy)
    [] handle = "br" -> RLt(R(0), dx) /\ RLt(R(0), dy)

TowardOpposite(handle, dx, dy) ==
  AwayFromOpposite(handle, RSub(R(0), dx), RSub(R(0), dy))

SameGeometry(a, b) ==
  a.x = b.x /\ a.y = b.y /\ a.width = b.width /\ a.height = b.height

ScaleDirection(handle, p) ==
  LET dx == RSub(R(p[1]), dragOffset[1])
      dy == RSub(R(p[2]), dragOffset[2])
      init == initialAssetState[1]
      s == scaleFactor(handle, dx, dy, init)
      floor == RDiv(R(minSize), RMax(init.width, init.height))
  IN  /\ AwayFromOpposite(handle, dx, dy) => RLt(R(1), s)
      /\ TowardOpposite(handle, dx, dy) => RLt(s, R(1)) \/ s = floor
      /\ (dx = R(0) /\ dy = R(0)) =>
           \A i \in 1..Len(assets) :
             assets[i].id = selectedAssetId => SameGeometry(assets'[i], init)

C30_ScaleDirection ==
  [][\A p \in GesturePoints :
       HandleMouseMove(p) /\ ResizingOnly =>
         ScaleDirection(resizeHandle, p)]_vars

====
